---- MODULE Spec2Model ----
(***************************************************************************)
(* A model of bitfile.py (class BitFile): bit-granular reading and writing *)
(* of a byte file through two one-byte buffers.                            *)
(*                                                                         *)
(* The source is Python 2 (print statements and xrange in sample.py;       *)
(* read(1) compared with '' and write(chr(..)) on a binary stream in       *)
(* bitfile.py), so str is a byte string and int is the machine-word        *)
(* integer type, distinct from long.                                       *)
(*                                                                         *)
(* Representation of Python values:                                        *)
(*   str            a sequence of character codes, 'A' = <<65>>            *)
(*   bytearray(2)   a function on 0..1, as the code indexes it             *)
(*   small integers TLA+ integers                                          *)
(*   the integer argument of put_bits and result of get_bits: a sequence   *)
(*                  of base-256 digits, most significant first (they reach *)
(*                  64 bits and more, beyond the integers TLC evaluates)   *)
(*   None           the empty sequence, as a return value                  *)
(***************************************************************************)
EXTENDS Integers, Sequences, FiniteSets, TLC

VARIABLES
    stream,         \* self._stream: "None", "open", or "closed" (a closed handle)
    mode,           \* self._mode: a sequence of one-character strings
    input_buffer,   \* self._input_buffer:  [bit_count, buffered_bits]
    output_buffer,  \* self._output_buffer: [bit_count, buffered_bits]
    file,           \* the bytes of the file the stream is bound to
    pos,            \* the position of the underlying stream in the file
    last,           \* the last call: its name, what it returned or raised
    wlog,           \* the values written so far by the caller of a round trip
    rlog,           \* the values read back so far by the caller of a round trip
    pc              \* where the caller of a scenario stands

vars == <<stream, mode, input_buffer, output_buffer, file, pos, last, wlog, rlog, pc>>

----------------------------------------------------------------------------
(* Integer helpers: Python's <<, >>, | and & on non-negative integers.     *)

RECURSIVE Pow2(_)
Pow2(n) == IF n <= 0 THEN 1 ELSE 2 * Pow2(n - 1)

Shl(x, n) == x * Pow2(n)
Shr(x, n) == x \div Pow2(n)

RECURSIVE BitOr(_, _)
BitOr(x, y) ==
    IF x = 0 THEN y
    ELSE IF y = 0 THEN x
    ELSE 2 * BitOr(x \div 2, y \div 2) + (IF (x % 2) + (y % 2) > 0 THEN 1 ELSE 0)

RECURSIVE BitAnd(_, _)
BitAnd(x, y) ==
    IF x = 0 \/ y = 0 THEN 0
    ELSE 2 * BitAnd(x \div 2, y \div 2) + (IF (x % 2) + (y % 2) = 2 THEN 1 ELSE 0)

(* Bit i (0 = least significant) of x. *)
BitOf(x, i) == Shr(x, i) % 2

(* 'x' in mode *)
In(ch, m) == \E i \in 1..Len(m) : m[i] = ch

(* chr(n): a one-character str, for n in range(256). *)
chr(n) == <<n>>

(* ord(c): the code of a one-character str. *)
ord(c) == c[1]

----------------------------------------------------------------------------
(* Integers of any size, as big-endian base-256 digit sequences.           *)

RECURSIVE Norm(_)
Norm(d) == IF d # <<>> /\ Head(d) = 0 THEN Norm(Tail(d)) ELSE d

(* value & 0xFF *)
And255(d) == IF d = <<>> THEN 0 ELSE d[Len(d)]

(* value >> 8 *)
Shr8(d) == IF d = <<>> THEN <<>> ELSE SubSeq(d, 1, Len(d) - 1)

(* (value << 8) + v, for 0 <= v <= 255 *)
Shl8Add(d, v) == Norm(Append(d, v))

(* The size in bytes of the C long behind Python 2's int (LP64). *)
SizeofLong == 8

(* isinstance(bits, int): in Python 2 an integer above sys.maxint            *)
(* (2^(8*SizeofLong-1) - 1) is a long, and a long is not an instance of int. *)
isinstance_int(d) ==
    LET n == Norm(d)
    IN  \/ Len(n) < SizeofLong
        \/ Len(n) = SizeofLong /\ n[1] < 128

----------------------------------------------------------------------------
(* The BitFile object together with the file behind its stream.            *)

Self == [stream |-> stream, mode |-> mode,
         input_buffer |-> input_buffer, output_buffer |-> output_buffer,
         file |-> file, pos |-> pos]

(* bytearray(2) *)
bytearray2 == [i \in 0..1 |-> 0]

(* What a call gives back: the object after it, and the value returned or *)
(* the exception raised.                                                   *)
Return(s, ret) == [s |-> s, ret |-> ret, exc |-> "none"]
Raise(s, e) == [s |-> s, ret |-> <<>>, exc |-> e]

RECURSIVE Zeros(_)
Zeros(n) == IF n <= 0 THEN <<>> ELSE <<0>> \o Zeros(n - 1)

(* file.write(<one byte>) on the underlying stream: at the end of the file *)
(* in append mode, else at the position (a gap left by a seek past the end *)
(* reads as zeros).                                                        *)
stream_write(s, byte) ==
    LET at == IF In("a", s.mode) THEN Len(s.file) ELSE s.pos
        padded == s.file \o Zeros(at - Len(s.file))
    IN  [s EXCEPT !.file = SubSeq(padded, 1, at) \o <<byte>>
                               \o SubSeq(padded, at + 2, Len(padded)),
                  !.pos = at + 1]

(* file.read(1): the byte at the position, or '' at the end of the file. *)
stream_read(s) ==
    IF s.pos < Len(s.file)
    THEN [s |-> [s EXCEPT !.pos = s.pos + 1], data |-> <<s.file[s.pos + 1]>>]
    ELSE [s |-> s, data |-> <<>>]

----------------------------------------------------------------------------
(* The methods of BitFile, each as the object it leaves and its outcome.   *)

(* A _verify_opened that looks for a closed handle only. *)
verify_opened_closed_only(s) == s.stream # "closed"

(* _verify_opened: passes unless the stream is None or closed. *)
verify_opened(s) == ~(s.stream = "None" \/ s.stream = "closed")

is_readable(s) == s.stream # "None" /\ In("r", s.mode)

(* An _is_writable that takes any bound stream for writable. *)
is_writable_any_mode(s) == s.stream # "None"

is_writable(s) ==
    s.stream # "None" /\ (In("w", s.mode) \/ In("a", s.mode) \/ In("+", s.mode))

(* The modes Python 2's open() accepts once 'b' is appended: they start    *)
(* with r, w or a, followed by '+' and 'b' in any order, each at most once.*)
ValidModes == {<<"r", "b">>, <<"w", "b">>, <<"a", "b">>,
               <<"r", "+", "b">>, <<"w", "+", "b">>, <<"a", "+", "b">>,
               <<"r", "b", "+">>, <<"w", "b", "+">>, <<"a", "b", "+">>}

(* An open that passes a text mode on to the file. *)
open_text_mode(s, m) ==
    IF s.stream = "None" \/ s.stream = "closed"
    THEN Return([stream |-> "open", mode |-> Append(m, "b"),
                 input_buffer |-> bytearray2,
                 output_buffer |-> bytearray2,
                 file |-> IF In("w", m) THEN <<>> ELSE s.file,
                 pos |-> IF In("a", m) THEN Len(s.file) ELSE 0],
                <<>>)
    ELSE Raise(s, "ValueError")

(* BitFile.open(file_name, mode) *)
open(s, m) ==
    IF s.stream = "None" \/ s.stream = "closed"
    THEN IF In("t", m) \/ In("U", m)
         THEN Raise(s, "ValueError")
         ELSE LET m2 == IF ~In("b", m) THEN Append(m, "b") ELSE m
              IN  IF m2 \notin ValidModes
                  THEN Raise(s, "ValueError")
                  ELSE Return([stream |-> "open", mode |-> m2,
                               input_buffer |-> bytearray2,
                               output_buffer |-> bytearray2,
                               file |-> IF In("w", m2) THEN <<>> ELSE s.file,
                               pos |-> IF In("a", m2) THEN Len(s.file) ELSE 0],
                              <<>>)
    ELSE Raise(s, "ValueError")

(* A flush that does not mask the shifted bits to a byte. *)
flush_bits_unmasked(buf, ones_fill) ==
    LET zero_filled == Shl(buf[1], 8 - buf[0])
    IN  IF ones_fill THEN BitOr(zero_filled, Shr(255, buf[0])) ELSE zero_filled

(* flush: the byte written, the buffered bits left-justified and the spare *)
(* low bits filled.                                                        *)
flush_bits(buf, ones_fill) ==
    LET zero_filled == Shl(buf[1], 8 - buf[0]) % 256
    IN  IF ones_fill THEN BitOr(zero_filled, Shr(255, buf[0])) ELSE zero_filled

(* A flush that writes a byte also when no bits are buffered. *)
flush_unguarded(s, ones_fill) ==
    IF ~verify_opened(s) THEN Raise(s, "ValueError")
    ELSE IF ~is_writable(s) THEN Raise(s, "IOError")
    ELSE Return([stream_write(s, flush_bits(s.output_buffer, ones_fill))
                    EXCEPT !.output_buffer = bytearray2],
                <<s.output_buffer[0]>>)

(* BitFile.flush(ones_fill) *)
flush(s, ones_fill) ==
    IF ~verify_opened(s) THEN Raise(s, "ValueError")
    ELSE IF ~is_writable(s) THEN Raise(s, "IOError")
    ELSE IF s.output_buffer[0] = 0 THEN Return(s, <<0>>)
    ELSE LET return_value == s.output_buffer[0]
             bits == flush_bits(s.output_buffer, ones_fill)
         IN  Return([stream_write(s, bits) EXCEPT !.output_buffer = bytearray2],
                    <<return_value>>)

(* A close that drops the buffered bits, as __del__ does. *)
close_without_flush(s) ==
    IF ~verify_opened(s) THEN Raise(s, "ValueError")
    ELSE Return([s EXCEPT !.stream = "None", !.mode = <<>>,
                          !.input_buffer = bytearray2,
                          !.output_buffer = bytearray2],
                <<>>)

(* A close that leaves the input buffer as it is. *)
close_keeping_input(s) ==
    IF ~verify_opened(s) THEN Raise(s, "ValueError")
    ELSE LET f == IF is_writable(s) /\ s.output_buffer[0] # 0
                  THEN flush(s, FALSE)
                  ELSE Return(s, <<>>)
         IN  IF f.exc # "none" THEN Raise(f.s, f.exc)
             ELSE Return([f.s EXCEPT !.stream = "None", !.mode = <<>>,
                                     !.output_buffer = bytearray2],
                         <<>>)

(* BitFile.close() *)
close(s) ==
    IF ~verify_opened(s) THEN Raise(s, "ValueError")
    ELSE LET f == IF is_writable(s) /\ s.output_buffer[0] # 0
                  THEN flush(s, FALSE)
                  ELSE Return(s, <<>>)
         IN  IF f.exc # "none" THEN Raise(f.s, f.exc)
             ELSE Return([f.s EXCEPT !.stream = "None", !.mode = <<>>,
                                     !.input_buffer = bytearray2,
                                     !.output_buffer = bytearray2],
                         <<>>)

(* BitFile.byte_align(): chr() raises ValueError outside range(256). *)
byte_align(s) ==
    IF ~verify_opened(s) THEN Raise(s, "ValueError")
    ELSE LET return_value == s.output_buffer[1]
             bits == Shl(s.output_buffer[1], 8 - s.output_buffer[0])
             reset(t) == [t EXCEPT !.input_buffer = bytearray2,
                                   !.output_buffer = bytearray2]
         IN  IF is_writable(s) /\ s.output_buffer[0] # 0
             THEN IF bits > 255 THEN Raise(s, "ValueError")
                  ELSE Return(reset(stream_write(s, ord(chr(bits)))), <<return_value>>)
             ELSE Return(reset(s), <<return_value>>)

(* BitFile.seek(offset, whence): file.seek raises IOError (EINVAL) for a   *)
(* negative target and for an unknown whence.                              *)
seek(s, offset, whence) ==
    LET a == byte_align(s)
        target == IF whence = 0 THEN offset
                  ELSE IF whence = 1 THEN a.s.pos + offset
                  ELSE Len(a.s.file) + offset
    IN  IF a.exc # "none" THEN Raise(a.s, a.exc)
        ELSE IF whence \notin {0, 1, 2} \/ target < 0 THEN Raise(a.s, "IOError")
        ELSE Return([a.s EXCEPT !.pos = target], <<>>)

(* A get_char that shifts by the count where 8 - count is due, and back. *)
get_char_tmp_swapped(return_value, buf) ==
    BitOr(Shr(return_value, 8 - buf[0]), Shl(buf[1], buf[0])) % 256

(* get_char with buffered bits: the byte returned, the buffered bits       *)
(* followed by the high bits of the byte just read.                        *)
get_char_tmp(return_value, buf) ==
    BitOr(Shr(return_value, buf[0]), Shl(buf[1], 8 - buf[0])) % 256

(* A get_char that takes ord() of what it read without a look at it. *)
get_char_unchecked(s) ==
    IF ~verify_opened(s) THEN Raise(s, "ValueError")
    ELSE IF ~is_readable(s) THEN Raise(s, "IOError")
    ELSE LET rd == stream_read(s)
         IN  IF rd.data = <<>> THEN Raise(rd.s, "TypeError")
             ELSE Return(rd.s, chr(ord(rd.data)))

(* BitFile.get_char() *)
get_char(s) ==
    IF ~verify_opened(s) THEN Raise(s, "ValueError")
    ELSE IF ~is_readable(s) THEN Raise(s, "IOError")
    ELSE LET rd == stream_read(s)
         IN  IF rd.data = <<>> THEN Raise(rd.s, "EOFError")
             ELSE LET return_value == ord(rd.data)
                      count == s.input_buffer[0]
                      tmp == get_char_tmp(return_value, s.input_buffer)
                  IN  IF count = 0 THEN Return(rd.s, chr(return_value))
                      ELSE Return([rd.s EXCEPT !.input_buffer[1] = return_value % 256],
                                  chr(tmp))

(* A put_char that shifts by the count where 8 - count is due, and back. *)
put_char_tmp_swapped(ba0, buf) ==
    BitOr(Shr(ba0, 8 - buf[0]), Shl(buf[1], buf[0]) % 256)

(* put_char with buffered bits: the byte written, the buffered bits        *)
(* followed by the high bits of the new byte.                              *)
put_char_tmp(ba0, buf) ==
    BitOr(Shr(ba0, buf[0]), Shl(buf[1], 8 - buf[0]) % 256)

(* A put_char that keeps seven bits of its argument. *)
put_char_ba0_ascii(c) ==
    (IF c.type # "str" THEN And255(c.v) ELSE c.v[1]) % 128

(* put_char: the byte to write, ord(c[0]) of a str, else c & 0xFF. *)
put_char_ba0(c) ==
    LET str_c == IF c.type # "str" THEN chr(And255(c.v)) ELSE c.v
    IN  ord(<<str_c[1]>>)

(* A put_char that takes over the buffer the reads use. *)
put_char_shared_buffer(s, c) ==
    IF ~verify_opened(s) THEN Raise(s, "ValueError")
    ELSE IF ~is_writable(s) THEN Raise(s, "IOError")
    ELSE LET ba0 == put_char_ba0(c)
             count == s.output_buffer[0]
             tmp0 == put_char_tmp(ba0, s.output_buffer)
         IN  IF count = 0
             THEN Return([stream_write(s, ba0) EXCEPT !.input_buffer = bytearray2],
                         chr(ba0))
             ELSE Return([stream_write(s, tmp0) EXCEPT !.output_buffer[1] = ba0,
                                                       !.input_buffer = bytearray2],
                         chr(ba0))

(* BitFile.put_char(c): c is a str (its codes), or an integer (its digits) *)
(* converted with chr(c & 0xFF).                                           *)
put_char(s, c) ==
    IF ~verify_opened(s) THEN Raise(s, "ValueError")
    ELSE IF ~is_writable(s) THEN Raise(s, "IOError")
    ELSE LET ba0 == put_char_ba0(c)
             count == s.output_buffer[0]
             tmp0 == put_char_tmp(ba0, s.output_buffer)
         IN  IF count = 0 THEN Return(stream_write(s, ba0), chr(ba0))
             ELSE Return([stream_write(s, tmp0) EXCEPT !.output_buffer[1] = ba0],
                         chr(ba0))

(* A get_bit that returns the lsb of the unread bits first. *)
get_bit_value_lsb_first(buf) == Shr(buf[1], 7 - buf[0]) % 2

(* get_bit: the bit returned, the msb of the unread bits, once the count   *)
(* is decremented.                                                         *)
get_bit_value(buf) == Shr(buf[1], buf[0]) % 2

(* BitFile.get_bit() *)
get_bit(s) ==
    IF ~verify_opened(s) THEN Raise(s, "ValueError")
    ELSE IF ~is_readable(s) THEN Raise(s, "IOError")
    ELSE LET rd == stream_read(s)
             eof == s.input_buffer[0] = 0 /\ rd.data = <<>>
             filled == IF s.input_buffer[0] = 0
                       THEN [rd.s EXCEPT !.input_buffer[1] = ord(rd.data),
                                         !.input_buffer[0] = 8]
                       ELSE s
             taken == [filled EXCEPT !.input_buffer[0] = filled.input_buffer[0] - 1]
             return_value == get_bit_value(taken.input_buffer)
         IN  IF eof THEN Raise(rd.s, "EOFError")
             ELSE Return(taken, <<return_value>>)

(* A put_bit that fills the buffer from its low end upwards. *)
put_bit_buffer_lsb_first(buf, bit) ==
    [buf EXCEPT ![0] = buf[0] + 1,
                ![1] = IF bit # 0 THEN BitOr(buf[1], Pow2(buf[0])) ELSE buf[1]]

(* put_bit: the buffer with the bit shifted in at its low end. *)
put_bit_buffer(buf, bit) ==
    LET shifted == Shl(buf[1], 1) % 256
    IN  [buf EXCEPT ![0] = buf[0] + 1,
                    ![1] = IF bit # 0 THEN BitOr(shifted, 1) ELSE shifted]

(* A put_bit that writes the eighth bit's byte and keeps counting. *)
put_bit_without_reset(s, bit) ==
    IF ~verify_opened(s) THEN Raise(s, "ValueError")
    ELSE IF ~is_writable(s) THEN Raise(s, "IOError")
    ELSE LET held == [s EXCEPT !.output_buffer = put_bit_buffer(s.output_buffer, bit)]
         IN  IF held.output_buffer[0] = 8
             THEN Return(stream_write(held, held.output_buffer[1]),
                         <<IF bit # 0 THEN 1 ELSE 0>>)
             ELSE Return(held, <<IF bit # 0 THEN 1 ELSE 0>>)

(* BitFile.put_bit(bit): any non-zero bit counts as 1. *)
put_bit(s, bit) ==
    IF ~verify_opened(s) THEN Raise(s, "ValueError")
    ELSE IF ~is_writable(s) THEN Raise(s, "IOError")
    ELSE LET held == [s EXCEPT !.output_buffer = put_bit_buffer(s.output_buffer, bit)]
         IN  IF held.output_buffer[0] = 8
             THEN Return([stream_write(held, held.output_buffer[1]) EXCEPT !.output_buffer = bytearray2],
                         <<IF bit # 0 THEN 1 ELSE 0>>)
             ELSE Return(held, <<IF bit # 0 THEN 1 ELSE 0>>)

(* An int_to_bytearray whose index 0 is the LSB. *)
RECURSIVE int_to_bytearray_lsb_first(_, _)
int_to_bytearray_lsb_first(value, length) ==
    IF length <= 0 THEN <<>>
    ELSE <<And255(value)>> \o int_to_bytearray_lsb_first(Shr8(value), length - 1)

(* int_to_bytearray(value, length): index 0 (here 1) is the MSB. *)
RECURSIVE int_to_bytearray(_, _)
int_to_bytearray(value, length) ==
    IF length <= 0 THEN <<>>
    ELSE Append(int_to_bytearray(Shr8(value), length - 1), And255(value))

(* get_bits, "while remaining >= 8": whole bytes, each inserted at the     *)
(* front of values.                                                        *)
RECURSIVE get_bits_bytes(_, _, _)
get_bits_bytes(s, remaining, values) ==
    IF remaining >= 8
    THEN LET c == get_char(s)
         IN  IF c.exc # "none"
             THEN [s |-> c.s, remaining |-> remaining, values |-> values, exc |-> c.exc]
             ELSE get_bits_bytes(c.s, remaining - 8, <<ord(c.ret)>> \o values)
    ELSE [s |-> s, remaining |-> remaining, values |-> values, exc |-> "none"]

(* get_bits, "while remaining > 0": the bits of the partial byte. *)
RECURSIVE get_bits_last(_, _, _)
get_bits_last(s, remaining, lastv) ==
    IF remaining > 0
    THEN LET b == get_bit(s)
         IN  IF b.exc # "none"
             THEN [s |-> b.s, lastv |-> lastv, exc |-> b.exc]
             ELSE get_bits_last(b.s, remaining - 1,
                                IF b.ret[1] # 0
                                THEN BitOr(Shl(lastv, 1), 1)
                                ELSE Shl(lastv, 1))
    ELSE [s |-> s, lastv |-> lastv, exc |-> "none"]

(* A get_bits that folds values from its last element to its first. *)
RECURSIVE get_bits_value_reversed(_, _)
get_bits_value_reversed(return_value, values) ==
    IF values = <<>> THEN return_value
    ELSE get_bits_value_reversed(Shl8Add(return_value, values[Len(values)]),
                                 SubSeq(values, 1, Len(values) - 1))

(* get_bits, "for v in values": return_value = (return_value << 8) + v. *)
RECURSIVE get_bits_value(_, _)
get_bits_value(return_value, values) ==
    IF values = <<>> THEN return_value
    ELSE get_bits_value(Shl8Add(return_value, Head(values)), Tail(values))

(* BitFile.get_bits(count) *)
get_bits(s, count) ==
    IF ~verify_opened(s) THEN Raise(s, "ValueError")
    ELSE IF ~is_readable(s) THEN Raise(s, "IOError")
    ELSE LET whole == get_bits_bytes(s, count, <<>>)
             part == get_bits_last(whole.s, whole.remaining, 0)
         IN  IF whole.exc # "none" THEN Raise(whole.s, whole.exc)
             ELSE IF whole.remaining # 0
             THEN IF part.exc # "none" THEN Raise(part.s, part.exc)
                  ELSE Return(part.s,
                              get_bits_value(<<>>, <<part.lastv>> \o whole.values))
             ELSE Return(whole.s, get_bits_value(<<>>, whole.values))

(* put_bits, "while remaining >= 8": put_char(ba.pop()), the last byte of  *)
(* ba first.                                                               *)
RECURSIVE put_bits_bytes(_, _, _)
put_bits_bytes(s, remaining, ba) ==
    IF remaining >= 8
    THEN LET c == put_char(s, [type |-> "int", v |-> <<ba[Len(ba)]>>])
         IN  IF c.exc # "none"
             THEN [s |-> c.s, remaining |-> remaining, ba |-> ba, exc |-> c.exc]
             ELSE put_bits_bytes(c.s, remaining - 8, SubSeq(ba, 1, Len(ba) - 1))
    ELSE [s |-> s, remaining |-> remaining, ba |-> ba, exc |-> "none"]

(* A put_bits whose bit loop stops one bit short. *)
RECURSIVE put_bits_last_short(_, _, _)
put_bits_last_short(s, remaining, tmp) ==
    IF remaining > 1
    THEN LET b == put_bit(s, BitAnd(tmp, 128))
         IN  IF b.exc # "none" THEN [s |-> b.s, exc |-> b.exc]
             ELSE put_bits_last_short(b.s, remaining - 1, Shl(tmp, 1))
    ELSE [s |-> s, exc |-> "none"]

(* put_bits, "while remaining > 0": put_bit(tmp & 0x80); tmp = tmp << 1. *)
RECURSIVE put_bits_last(_, _, _)
put_bits_last(s, remaining, tmp) ==
    IF remaining > 0
    THEN LET b == put_bit(s, BitAnd(tmp, 128))
         IN  IF b.exc # "none" THEN [s |-> b.s, exc |-> b.exc]
             ELSE put_bits_last(b.s, remaining - 1, Shl(tmp, 1))
    ELSE [s |-> s, exc |-> "none"]

(* BitFile.put_bits(bits, count): bytearray(n) raises ValueError for n < 0, *)
(* ba[0] raises IndexError on an empty bytearray.                           *)
put_bits(s, bits, count) ==
    IF ~verify_opened(s) THEN Raise(s, "ValueError")
    ELSE IF ~is_writable(s) THEN Raise(s, "IOError")
    ELSE IF ~isinstance_int(bits) THEN Raise(s, "TypeError")
    ELSE IF (count + 7) \div 8 < 0 THEN Raise(s, "ValueError")
    ELSE LET ba == int_to_bytearray(bits, (count + 7) \div 8)
             whole == put_bits_bytes(s, count, ba)
             part == put_bits_last(whole.s, whole.remaining,
                                   Shl(whole.ba[1], 8 - whole.remaining))
         IN  IF whole.exc # "none" THEN Raise(whole.s, whole.exc)
             ELSE IF whole.remaining # 0
             THEN IF whole.ba = <<>> THEN Raise(whole.s, "IndexError")
                  ELSE IF part.exc # "none" THEN Raise(part.s, part.exc)
                  ELSE Return(part.s, <<count>>)
             ELSE Return(whole.s, <<count>>)

(* BitFile.__del__(): the handle is closed; the buffers are not written. *)
del(s) ==
    IF s.stream # "None" /\ s.stream # "closed"
    THEN Return([s EXCEPT !.stream = "closed"], <<>>)
    ELSE Return(s, <<>>)

----------------------------------------------------------------------------
(* A call by the caller: the object and the file become what the method    *)
(* leaves, and last records the call.                                      *)

Call(name, arg, r) ==
    /\ stream' = r.s.stream
    /\ mode' = r.s.mode
    /\ input_buffer' = r.s.input_buffer
    /\ output_buffer' = r.s.output_buffer
    /\ file' = r.s.file
    /\ pos' = r.s.pos
    /\ last' = [op |-> name, arg |-> arg, ret |-> r.ret, exc |-> r.exc]

(* BitFile.__init__ *)
InitObject ==
    /\ stream = "None"
    /\ mode = <<>>
    /\ input_buffer = bytearray2
    /\ output_buffer = bytearray2
    /\ pos = 0
    /\ last = [op |-> "__init__", arg |-> <<>>, ret |-> <<>>, exc |-> "none"]

----------------------------------------------------------------------------
(* The round trip of sample.py (example, write_test, read_test): open for  *)
(* writing, write values, flush and/or close, open for reading, read the   *)
(* values back with the mirrored calls.                                    *)

(* The most calls of one write_test. *)
MaxOps == 3

(* The most put_bit calls of the single-bit round trip. *)
MaxBits == 9

(* The longest put_bits/get_bits count of the multi-bit round trip. *)
MaxCount == 64

PyStr(n) == [type |-> "str", v |-> <<n>>]
PyInt(n) == [type |-> "int", v |-> <<n>>]

CharOp(c) == [kind |-> "char", type |-> c.type, v |-> c.v, n |-> 8]
BitOp(b) == [kind |-> "bit", type |-> "int", v |-> <<b>>, n |-> 1]
BitsOp(d, n) == [kind |-> "bits", type |-> "int", v |-> d, n |-> n]

(* The calls write_test draws from: 'A', a byte with its high bit set,     *)
(* both bits, 0x111 and 0x222 in 12 bits, 5 in 3 bits, 0xABCD in 16 bits,  *)
(* and 2^63 in 64 bits.                                                    *)
RTOps ==
    {CharOp(PyStr(65)), CharOp(PyInt(178)), BitOp(0), BitOp(1),
     BitsOp(<<1, 17>>, 12), BitsOp(<<2, 34>>, 12), BitsOp(<<5>>, 3),
     BitsOp(<<171, 205>>, 16),
     BitsOp(<<128, 0, 0, 0, 0, 0, 0, 0>>, 64)}

(* Every byte value, as a str and as an integer. *)
ByteOps == {CharOp(PyStr(b)) : b \in 0..255} \cup {CharOp(PyInt(b)) : b \in 0..255}

(* The digits of sample values below 2^n: 0, 1, 2^n - 1, 2^(n-1), and      *)
(* 0x...332211 cut to n bits.                                              *)
RECURSIVE MkSeq(_, _)
MkSeq(f, len) == IF len = 0 THEN <<>> ELSE Append(MkSeq(f, len - 1), f[len])

Digits(n, top, rest) ==
    MkSeq([i \in 1..((n + 7) \div 8) |->
              IF i = 1 THEN top % Pow2(((n - 1) % 8) + 1) ELSE rest[i]],
          (n + 7) \div 8)

SampleValues(n) ==
    LET len == (n + 7) \div 8
    IN  { Digits(n, 0, [i \in 1..len |-> 0]),
          Digits(n, IF len = 1 THEN 1 ELSE 0, [i \in 1..len |-> IF i = len THEN 1 ELSE 0]),
          Digits(n, 255, [i \in 1..len |-> 255]),
          Digits(n, Pow2((n - 1) % 8), [i \in 1..len |-> 0]),
          Digits(n, 17 * (((len - 1) % 15) + 1),
                 [i \in 1..len |-> 17 * (((len - i) % 15) + 1)]) }

BitsOps == UNION {{BitsOp(d, n) : d \in SampleValues(n)} : n \in 1..MaxCount}

(* The call an entry of the alphabet stands for, as write_test makes it. *)
WriteCall(s, op) ==
    IF op.kind = "char" THEN put_char(s, [type |-> op.type, v |-> op.v])
    ELSE IF op.kind = "bit" THEN put_bit(s, op.v[1])
    ELSE put_bits(s, op.v, op.n)

(* The mirrored call, as read_test makes it. *)
ReadCall(s, op) ==
    IF op.kind = "char" THEN get_char(s)
    ELSE IF op.kind = "bit" THEN get_bit(s)
    ELSE get_bits(s, op.n)

MethodOf(op, dir) ==
    IF op.kind = "char" THEN dir \o "_char"
    ELSE IF op.kind = "bit" THEN dir \o "_bit"
    ELSE dir \o "_bits"

InitRT ==
    /\ InitObject
    /\ file = <<>>
    /\ wlog = <<>>
    /\ rlog = <<>>
    /\ pc = "new"

(* bf.open('testfile', 'w') *)
RTOpenW ==
    /\ pc = "new"
    /\ Call("open", <<"w">>, open(Self, <<"w">>))
    /\ pc' = "write"
    /\ UNCHANGED <<wlog, rlog>>

(* One call of write_test, drawn from ops, at most max of them; a call    *)
(* that raises ends the test.                                              *)
Write(ops, max) ==
    /\ pc = "write"
    /\ Len(wlog) < max
    /\ \E op \in ops :
          LET r == WriteCall(Self, op)
          IN  /\ Call(MethodOf(op, "put"), op, r)
              /\ wlog' = Append(wlog, op)
              /\ pc' = IF r.exc = "none" THEN "write" ELSE "failed"
    /\ UNCHANGED rlog

RTWrite == Write(RTOps, MaxOps)

ByteWrite == Write(ByteOps, 1)

BitsWrite == Write(BitsOps, 1)

BitWrite == Write({BitOp(0), BitOp(1)}, MaxBits)

(* bf.flush(), closing write_test, with either fill. *)
RTFlush ==
    /\ pc = "write"
    /\ \E ones_fill \in BOOLEAN :
          Call("flush", [ones_fill |-> ones_fill], flush(Self, ones_fill))
    /\ pc' = "flushed"
    /\ UNCHANGED <<wlog, rlog>>

(* bf.close() after the writes. *)
RTClose ==
    /\ pc \in {"write", "flushed"}
    /\ Call("close", <<>>, close(Self))
    /\ pc' = IF pc = "write" THEN "closed" ELSE "flushed_closed"
    /\ UNCHANGED <<wlog, rlog>>

(* bf.open('testfile', 'r') *)
RTOpenR ==
    /\ pc \in {"closed", "flushed_closed"}
    /\ Call("open", <<"r">>, open(Self, <<"r">>))
    /\ pc' = "read"
    /\ UNCHANGED <<wlog, rlog>>

(* One call of read_test: the mirror of the next call write_test made. *)
RTRead ==
    /\ pc = "read"
    /\ Len(rlog) < Len(wlog)
    /\ LET op == wlog[Len(rlog) + 1]
           r == ReadCall(Self, op)
       IN  /\ Call(MethodOf(op, "get"), op, r)
           /\ rlog' = Append(rlog, [ret |-> r.ret, exc |-> r.exc])
    /\ UNCHANGED <<wlog, pc>>

NextRT == RTOpenW \/ RTWrite \/ RTFlush \/ RTClose \/ RTOpenR \/ RTRead

SpecRT == InitRT /\ [][NextRT]_vars

NextByte == RTOpenW \/ ByteWrite \/ RTFlush \/ RTClose \/ RTOpenR \/ RTRead

SpecByte == InitRT /\ [][NextByte]_vars

NextBits == RTOpenW \/ BitsWrite \/ RTFlush \/ RTClose \/ RTOpenR \/ RTRead

SpecBits == InitRT /\ [][NextBits]_vars

NextBit == RTOpenW \/ BitWrite \/ RTFlush \/ RTClose \/ RTOpenR \/ RTRead

SpecBit == InitRT /\ [][NextBit]_vars

----------------------------------------------------------------------------
(* A writer that passes put_bits counts that are not positive, among       *)
(* well-formed calls.                                                      *)

ArgOps ==
    {CharOp(PyStr(65)), BitOp(1), BitsOp(<<5>>, 3), BitsOp(<<1, 17>>, 12),
     BitsOp(<<5>>, 0), BitsOp(<<5>>, -1), BitsOp(<<5>>, -7), BitsOp(<<5>>, -8),
     BitsOp(<<128, 0, 0, 0, 0, 0, 0, 0>>, 64)}

ArgsWrite == Write(ArgOps, MaxOps)

NextArgs == RTOpenW \/ ArgsWrite

SpecArgs == InitRT /\ [][NextArgs]_vars

----------------------------------------------------------------------------
(* A writer whose BitFile object is deleted while its stream is open.      *)

(* del bf, or the last reference to bf going away, after the writes. *)
RTDel ==
    /\ pc = "write"
    /\ Call("__del__", <<>>, del(Self))
    /\ pc' = "deleted"
    /\ UNCHANGED <<wlog, rlog>>

NextDel == RTOpenW \/ RTWrite \/ RTDel

SpecDel == InitRT /\ [][NextDel]_vars

----------------------------------------------------------------------------
(* A reader of a file that exists: cpptest.py, reading to the end.         *)

(* The longest file found on disk. *)
MaxFileLen == 2

(* The bytes of the files found on disk. *)
FileBytes == {65, 178}

RECURSIVE SeqsUpTo(_, _)
SeqsUpTo(S, len) ==
    IF len = 0 THEN {<<>>}
    ELSE LET shorter == SeqsUpTo(S, len - 1)
         IN  shorter \cup {Append(q, x) : q \in shorter, x \in S}

InitFiles == SeqsUpTo(FileBytes, MaxFileLen)

InitRead ==
    /\ InitObject
    /\ file \in InitFiles
    /\ wlog = <<>>
    /\ rlog = <<>>
    /\ pc = "new"

(* bf.open('testfile', 'r') *)
RdOpen ==
    /\ pc = "new"
    /\ Call("open", <<"r">>, open(Self, <<"r">>))
    /\ pc' = "bits"
    /\ rlog' = <<>>
    /\ UNCHANGED wlog

(* bf.get_bit(); rlog keeps the bits returned while nothing but get_bit    *)
(* was called since the open.                                              *)
RdGetBit ==
    /\ pc \in {"bits", "mixed"}
    /\ LET r == get_bit(Self)
       IN  /\ Call("get_bit", <<>>, r)
           /\ rlog' = IF pc = "bits" /\ r.exc = "none"
                      THEN Append(rlog, r.ret[1]) ELSE rlog
    /\ UNCHANGED <<wlog, pc>>

(* bf.get_char() *)
RdGetChar ==
    /\ pc \in {"bits", "mixed"}
    /\ Call("get_char", <<>>, get_char(Self))
    /\ pc' = "mixed"
    /\ rlog' = <<>>
    /\ UNCHANGED wlog

(* bf.get_bits(count) *)
RdGetBits ==
    /\ pc \in {"bits", "mixed"}
    /\ \E count \in {3, 12} : Call("get_bits", <<count>>, get_bits(Self, count))
    /\ pc' = "mixed"
    /\ rlog' = <<>>
    /\ UNCHANGED wlog

(* bf.close() *)
RdClose ==
    /\ pc \in {"bits", "mixed"}
    /\ Call("close", <<>>, close(Self))
    /\ pc' = "new"
    /\ rlog' = <<>>
    /\ UNCHANGED wlog

NextRead == RdOpen \/ RdGetBit \/ RdGetChar \/ RdGetBits \/ RdClose

SpecRead == InitRead /\ [][NextRead]_vars

----------------------------------------------------------------------------
(* Any caller: every public method, in any order, on a file that exists.   *)

(* The most calls the caller makes. *)
MaxCalls == 5

(* The modes the caller opens with: read, write, append, read+write, text  *)
(* and universal newlines.                                                 *)
OpenModes == {<<"r">>, <<"w">>, <<"a">>, <<"r", "+">>, <<"r", "t">>, <<"r", "U">>}

Init ==
    /\ InitObject
    /\ file \in InitFiles
    /\ wlog = <<>>
    /\ rlog = <<>>
    /\ pc = 0

(* One more call. *)
Called ==
    /\ pc < MaxCalls
    /\ pc' = pc + 1
    /\ UNCHANGED <<wlog, rlog>>

Open == Called /\ \E m \in OpenModes : Call("open", m, open(Self, m))

Close == Called /\ Call("close", <<>>, close(Self))

ByteAlign == Called /\ Call("byte_align", <<>>, byte_align(Self))

Seek ==
    Called /\ \E offset \in {0, 1} :
                 Call("seek", <<offset, 0>>, seek(Self, offset, 0))

Flush ==
    Called /\ \E ones_fill \in BOOLEAN :
                 Call("flush", [ones_fill |-> ones_fill], flush(Self, ones_fill))

GetChar == Called /\ Call("get_char", <<>>, get_char(Self))

PutChar ==
    Called /\ \E c \in {PyStr(65), PyInt(178)} : Call("put_char", c, put_char(Self, c))

GetBit == Called /\ Call("get_bit", <<>>, get_bit(Self))

PutBit == Called /\ \E bit \in {0, 1} : Call("put_bit", <<bit>>, put_bit(Self, bit))

GetBits ==
    Called /\ \E count \in {3, 12} : Call("get_bits", <<count>>, get_bits(Self, count))

PutBits ==
    Called /\ \E op \in {BitsOp(<<5>>, 3), BitsOp(<<1, 17>>, 12)} :
                 Call("put_bits", op, put_bits(Self, op.v, op.n))

Next ==
    \/ Open \/ Close \/ ByteAlign \/ Seek \/ Flush
    \/ GetChar \/ PutChar \/ GetBit \/ PutBit \/ GetBits \/ PutBits

Spec == Init /\ [][Next]_vars

----------------------------------------------------------------------------
(* A caller whose file fails: a read or a write of the underlying stream   *)
(* raises IOError, and the caller gives up.                                *)

(* put_bit when self._stream.write raises: the buffer was updated before   *)
(* the write of the eighth bit's byte, and is not reset after it.          *)
put_bit_write_fails(s, bit) ==
    IF ~verify_opened(s) THEN Raise(s, "ValueError")
    ELSE IF ~is_writable(s) THEN Raise(s, "IOError")
    ELSE LET held == [s EXCEPT !.output_buffer = put_bit_buffer(s.output_buffer, bit)]
         IN  IF held.output_buffer[0] = 8
             THEN Raise(held, "IOError")
             ELSE Return(held, <<IF bit # 0 THEN 1 ELSE 0>>)

(* put_char when self._stream.write raises: the write comes before the     *)
(* buffer is touched.                                                      *)
put_char_write_fails(s, c) ==
    IF ~verify_opened(s) THEN Raise(s, "ValueError")
    ELSE IF ~is_writable(s) THEN Raise(s, "IOError")
    ELSE Raise(s, "IOError")

(* get_char when self._stream.read raises: the read is its first step. *)
get_char_read_fails(s) ==
    IF ~verify_opened(s) THEN Raise(s, "ValueError")
    ELSE IF ~is_readable(s) THEN Raise(s, "IOError")
    ELSE Raise(s, "IOError")

(* get_bit when self._stream.read raises: it reads with an empty buffer    *)
(* only, before the buffer is touched.                                     *)
get_bit_read_fails(s) ==
    IF ~verify_opened(s) THEN Raise(s, "ValueError")
    ELSE IF ~is_readable(s) THEN Raise(s, "IOError")
    ELSE IF s.input_buffer[0] = 0 THEN Raise(s, "IOError")
    ELSE get_bit(s)

(* The last call of a caller. *)
GaveUp ==
    /\ pc < MaxCalls
    /\ pc' = MaxCalls
    /\ UNCHANGED <<wlog, rlog>>

FailPutBit ==
    GaveUp /\ \E bit \in {0, 1} : Call("put_bit", <<bit>>, put_bit_write_fails(Self, bit))

FailPutChar ==
    GaveUp /\ \E c \in {PyStr(65), PyInt(178)} :
                 Call("put_char", c, put_char_write_fails(Self, c))

FailGetBit == GaveUp /\ Call("get_bit", <<>>, get_bit_read_fails(Self))

FailGetChar == GaveUp /\ Call("get_char", <<>>, get_char_read_fails(Self))

NextFault ==
    \/ Open \/ GetChar \/ PutChar \/ GetBit \/ PutBit \/ GetBits \/ PutBits
    \/ FailPutBit \/ FailPutChar \/ FailGetBit \/ FailGetChar

SpecFault == Init /\ [][NextFault]_vars

----------------------------------------------------------------------------
(* The bit stream, as the claims speak of it.                              *)

(* The bits of a byte, most significant first. *)
ByteBits(b) == <<BitOf(b, 7), BitOf(b, 6), BitOf(b, 5), BitOf(b, 4),
                 BitOf(b, 3), BitOf(b, 2), BitOf(b, 1), BitOf(b, 0)>>

RECURSIVE FileBits(_)
FileBits(f) == IF f = <<>> THEN <<>> ELSE ByteBits(Head(f)) \o FileBits(Tail(f))

(* The number a bit sequence spells, most significant bit first. *)
RECURSIVE BitsVal(_)
BitsVal(b) == IF b = <<>> THEN 0 ELSE 2 * BitsVal(SubSeq(b, 1, Len(b) - 1)) + b[Len(b)]

RECURSIVE Repeat(_, _)
Repeat(x, n) == IF n <= 0 THEN <<>> ELSE <<x>> \o Repeat(x, n - 1)

(* The low len digits of an integer, zero-padded at the front. *)
Pad(d, len) ==
    LET n == Norm(d)
    IN  IF Len(n) >= len THEN SubSeq(n, Len(n) - len + 1, Len(n))
        ELSE Repeat(0, len - Len(n)) \o n

(* The bits put_bits(value, count) puts on the stream: the count \div 8    *)
(* low-order bytes, least significant byte first, then the count % 8 low   *)
(* bits of the leading byte, most significant of them first.               *)
RECURSIVE BytesLSFirstBits(_, _)
BytesLSFirstBits(p, w) ==
    IF w = 0 THEN <<>>
    ELSE ByteBits(p[Len(p)]) \o BytesLSFirstBits(SubSeq(p, 1, Len(p) - 1), w - 1)

PutBitsStream(d, n) ==
    LET p == Pad(d, (n + 7) \div 8)
    IN  BytesLSFirstBits(p, n \div 8)
        \o (IF n % 8 = 0 THEN <<>> ELSE SubSeq(ByteBits(p[1]), 9 - (n % 8), 8))

(* The bits one call of the write log supplies, in stream order. *)
StreamBits(op) ==
    IF op.kind = "char"
    THEN ByteBits(IF op.type = "str" THEN op.v[1] ELSE And255(op.v))
    ELSE IF op.kind = "bit" THEN <<IF op.v[1] # 0 THEN 1 ELSE 0>>
    ELSE PutBitsStream(op.v, op.n)

RECURSIVE WBits(_)
WBits(log) ==
    IF log = <<>> THEN <<>>
    ELSE WBits(SubSeq(log, 1, Len(log) - 1)) \o StreamBits(log[Len(log)])

(* The bits pending in a buffer [bit_count, buffered_bits], oldest first. *)
PendingBits(buf) == SubSeq(ByteBits(buf[1] % 256), 9 - buf[0], 8)

(* The value a mirrored read must return for a logged write. *)
Written(op) ==
    IF op.kind = "char" THEN chr(IF op.type = "str" THEN op.v[1] ELSE And255(op.v))
    ELSE IF op.kind = "bit" THEN <<IF op.v[1] # 0 THEN 1 ELSE 0>>
    ELSE Norm(op.v)

----------------------------------------------------------------------------
(* C1: any interleaved sequence of put_char, put_bit and put_bits calls on *)
(* a freshly opened writable stream, then flush/close, is read back by the *)
(* mirrored get_char, get_bit and get_bits calls exactly as written, also  *)
(* at a non-zero buffer occupancy.  (Under SpecRT.)                        *)
C1_RoundTripInterleaved ==
    /\ pc # "failed"
    /\ \A i \in 1..Len(rlog) : rlog[i] = [ret |-> Written(wlog[i]), exc |-> "none"]

(* A put_char and a put_bits made at a non-zero occupancy, read back. *)
C1_Interleaved ==
    /\ pc = "read"
    /\ wlog = <<BitOp(1), CharOp(PyStr(65)), BitsOp(<<1, 17>>, 12)>>
    /\ Len(rlog) = 3

(* The same for the integers put_bits accepts: interleavings of values     *)
(* that are Python 2 ints do round-trip.                                   *)
RoundTripOfPlainInts ==
    (\A i \in 1..Len(wlog) : isinstance_int(wlog[i].v)) => C1_RoundTripInterleaved

(* C2: N put_bit calls, flush or close, reopen, N get_bit calls reproduce  *)
(* the bits in order, for N not a multiple of 8 too.  (Under SpecBit.)     *)
C2_BitRoundTrip ==
    /\ pc # "failed"
    /\ \A i \in 1..Len(rlog) :
          /\ wlog[i].kind = "bit"
          /\ rlog[i] = [ret |-> <<wlog[i].v[1]>>, exc |-> "none"]

(* Nine bits written and read back, across a byte boundary. *)
C2_Witness ==
    /\ pc = "read"
    /\ Len(rlog) = 9
    /\ rlog[1].ret = <<0>>
    /\ rlog[9].ret = <<1>>

(* C3: for every byte b in 0..255, put_char(b), flush/close, reopen for    *)
(* read, get_char yields b.  (Under SpecByte.)                             *)
C3_ByteRoundTrip ==
    /\ pc # "failed"
    /\ \A i \in 1..Len(rlog) :
          /\ wlog[i].kind = "char"
          /\ rlog[i] = [ret |-> chr(wlog[i].v[1]), exc |-> "none"]

(* The byte 255, written as a str, read back. *)
C3_Witness ==
    /\ pc = "read"
    /\ Len(rlog) = 1
    /\ wlog[1].type = "str"
    /\ wlog[1].v = <<255>>
    /\ rlog[1].ret = <<255>>

(* C4: for all count in 1..64 and all value in [0, 2^count),               *)
(* put_bits(value, count), flush/close, reopen for read, get_bits(count)   *)
(* returns value.  (Under SpecBits.)                                       *)
C4_BitsRoundTrip ==
    /\ pc # "failed"
    /\ \A i \in 1..Len(rlog) :
          /\ wlog[i].kind = "bits"
          /\ rlog[i] = [ret |-> Norm(wlog[i].v), exc |-> "none"]

(* The 2^63 that put_bits refuses: the round trip fails at the write. *)
C4_Refused ==
    /\ pc = "failed"
    /\ wlog[1].n = 64
    /\ last.exc = "TypeError"

(* C5 as claimed: put_bits writes the whole bytes most significant first,  *)
(* so that the first byte in the file of a first put_bits of 16 bits or    *)
(* more is the most significant whole byte of value.  (Under SpecRT.)      *)
C5_MostSignificantFirst ==
    (pc = "write" /\ last.op = "put_bits" /\ Len(wlog) = 1 /\ wlog[1].n >= 16)
    => LET len == (wlog[1].n + 7) \div 8
           w == wlog[1].n \div 8
       IN  file[1] = Pad(wlog[1].v, len)[len - w + 1]

(* C5, amended: put_bits puts the count \div 8 whole low-order bytes of    *)
(* value (cut to count bits) on the stream least significant byte first,   *)
(* then the count % 8 low bits of the leading byte, most significant of    *)
(* them first: after every put_bits the file followed by the pending bits  *)
(* is the bit stream of the calls made.  (Under SpecRT.)                   *)
C5_LeastSignificantFirst ==
    (pc = "write" /\ last.op = "put_bits")
    => FileBits(file) \o PendingBits(output_buffer) = WBits(wlog)

(* 0xABCD in 16 bits after one bit: the low byte goes first. *)
C5_Witness ==
    /\ pc = "write"
    /\ last.op = "put_bits"
    /\ wlog = <<BitOp(1), BitsOp(<<171, 205>>, 16)>>
    /\ file = <<230, 213>>
    /\ output_buffer[0] = 1

(* The bits read before the i-th mirrored read. *)
RECURSIVE Offset(_)
Offset(i) == IF i <= 1 THEN 0 ELSE Offset(i - 1) + wlog[i - 1].n

(* The bytes w, w-1, .. 1 of a bit stream after offset o. *)
RECURSIVE BytesLastFirst(_, _, _)
BytesLastFirst(bits, o, w) ==
    IF w = 0 THEN <<>>
    ELSE <<BitsVal(SubSeq(bits, o + 8 * (w - 1) + 1, o + 8 * w))>>
         \o BytesLastFirst(bits, o, w - 1)

(* The integer get_bits(n) returns at offset o of a bit stream: the first  *)
(* byte read is the least significant, the n % 8 bits read last are the    *)
(* most significant byte, right-justified.                                 *)
GetBitsValue(bits, o, n) ==
    Norm((IF n % 8 = 0 THEN <<>>
          ELSE <<BitsVal(SubSeq(bits, o + 8 * (n \div 8) + 1, o + n))>>)
         \o BytesLastFirst(bits, o, n \div 8))

(* C6 as claimed: the first byte get_bits reads from the stream is the     *)
(* most significant whole byte of its result.  (Under SpecRT.)             *)
C6_FirstByteMostSignificant ==
    (pc = "read" /\ Len(rlog) = 1 /\ wlog[1].kind = "bits" /\ wlog[1].n >= 16)
    => LET len == (wlog[1].n + 7) \div 8
           w == wlog[1].n \div 8
       IN  Pad(rlog[1].ret, len)[len - w + 1] = file[1]

(* C6, amended: get_bits(count) returns the unsigned integer whose least   *)
(* significant byte is the first byte read from the stream and whose most  *)
(* significant byte is the count % 8 bits read last, msb first and         *)
(* right-justified.  (Under SpecRT.)                                       *)
C6_FirstByteLeastSignificant ==
    \A i \in 1..Len(rlog) :
        wlog[i].kind = "bits"
        => rlog[i] = [ret |-> GetBitsValue(FileBits(file), Offset(i), wlog[i].n),
                      exc |-> "none"]

(* 12 bits read after one bit: 0x111 from a file that starts with 0x88. *)
C6_Witness ==
    /\ pc = "read"
    /\ Len(rlog) = 2
    /\ wlog = <<BitOp(1), BitsOp(<<1, 17>>, 12)>>
    /\ rlog[2].ret = <<1, 17>>
    /\ file[1] = 136

(* C7: on a file with bytes B, from an empty input buffer, the j-th        *)
(* get_bit returns bit 7 - j mod 8 of B[j div 8], and a byte is pulled     *)
(* from the file only when the input buffer is empty.  (Under SpecRead.)   *)
C7_BitsMsbFirst ==
    pc = "bits"
    => /\ \A j \in 0..(Len(rlog) - 1) :
             rlog[j + 1] = BitOf(file[(j \div 8) + 1], 7 - (j % 8))
       /\ pos = (Len(rlog) + 7) \div 8
       /\ input_buffer[0] = 8 * pos - Len(rlog)

(* All sixteen bits of a two-byte file read. *)
C7_Witness ==
    /\ pc = "bits"
    /\ Len(rlog) = 16
    /\ file = <<178, 65>>
    /\ last.op = "get_bit"

(* C8: close on a writable stream holding k bits (1 <= k <= 7) writes one  *)
(* byte, the k bits left-justified and the low 8-k bits zero, and releases *)
(* the handle; with an empty output buffer it writes nothing.              *)
(* (Under SpecRT.)                                                         *)
C8_CloseFlushes ==
    [][(pc = "write" /\ pc' = "closed")
       => /\ stream' = "None"
          /\ last'.exc = "none"
          /\ output_buffer[0] \in 0..7
          /\ output_buffer[0] > 0
             => file' = Append(file, BitsVal(PendingBits(output_buffer)
                                             \o Repeat(0, 8 - output_buffer[0])))
          /\ output_buffer[0] = 0 => file' = file]_vars

(* open for write, put_bit(1), close: the file is the byte 0x80. *)
C8_Witness ==
    /\ pc = "closed"
    /\ wlog = <<BitOp(1)>>
    /\ file = <<128>>
    /\ stream = "None"

----------------------------------------------------------------------------
(* A step of the free caller that calls the named method. *)
Calls(name) == last'.op = name /\ pc' = pc + 1

(* An output buffer, or an input buffer, that holds no bits. *)
Empty(buf) == buf = bytearray2

(* C11: byte_align on an open stream returns the occupancy of the output   *)
(* buffer (its count of pending bits) as it was before the call, whether   *)
(* it writes a padded byte or nothing.  (Under Spec.)                      *)
C11_AlignReturnsOccupancy ==
    [][(Calls("byte_align") /\ verify_opened(Self) /\ last'.exc = "none")
       => last'.ret = <<output_buffer[0]>>]_vars

(* byte_align after put_bit(0): one bit is pending and 0 comes back. *)
C11_ReturnsBits ==
    /\ last.op = "byte_align"
    /\ last.exc = "none"
    /\ last.ret = <<0>>
    /\ file = <<0>>
    /\ pc = 3

(* C12: on an open writable stream with pending output bits, reached by    *)
(* writes in any order, byte_align succeeds, writes the byte flush(False)  *)
(* would write and leaves both buffers empty.  (Under Spec.)               *)
C12_AlignAsFlush ==
    [][(Calls("byte_align") /\ verify_opened(Self) /\ is_writable(Self)
        /\ output_buffer[0] # 0)
       => /\ last'.exc = "none"
          /\ file' = flush(Self, FALSE).s.file
          /\ pos' = flush(Self, FALSE).s.pos
          /\ Empty(input_buffer')
          /\ Empty(output_buffer')]_vars

(* byte_align refused after put_char at a non-zero occupancy. *)
C12_AlignRefused ==
    /\ last.op = "byte_align"
    /\ last.exc = "ValueError"
    /\ stream = "open"
    /\ output_buffer[0] > 0
    /\ output_buffer[1] * Pow2(8 - output_buffer[0]) > 255

(* The same where the buffered value fits its count, as after put_bit and  *)
(* put_bits only: there byte_align writes what flush(False) writes.        *)
AlignAsFlushOfCleanBuffer ==
    [][(Calls("byte_align") /\ verify_opened(Self) /\ is_writable(Self)
        /\ output_buffer[0] # 0 /\ output_buffer[1] < Pow2(output_buffer[0]))
       => /\ last'.exc = "none"
          /\ file' = flush(Self, FALSE).s.file
          /\ Empty(input_buffer')
          /\ Empty(output_buffer')]_vars

(* C13: of two byte_align calls in succession on an open stream, the       *)
(* second returns 0, writes nothing and leaves the position and both       *)
(* buffers as they were.  (Under Spec.)                                    *)
C13_AlignTwice ==
    [][(Calls("byte_align") /\ last.op = "byte_align" /\ verify_opened(Self))
       => /\ last'.exc = "none"
          /\ last'.ret = <<0>>
          /\ file' = file
          /\ pos' = pos
          /\ input_buffer' = input_buffer
          /\ output_buffer' = output_buffer]_vars

(* The same after a first call that returned. *)
AlignTwiceAfterSuccess ==
    [][(Calls("byte_align") /\ last.op = "byte_align" /\ last.exc = "none"
        /\ verify_opened(Self))
       => /\ last'.exc = "none"
          /\ last'.ret = <<0>>
          /\ file' = file
          /\ pos' = pos
          /\ Empty(input_buffer') /\ Empty(input_buffer)
          /\ Empty(output_buffer') /\ Empty(output_buffer)]_vars

(* C14: seek byte-aligns, then repositions: on an open stream it writes    *)
(* the pending output bits, zero-padded, as one byte at the position       *)
(* before the seek, drops the unread input bits, leaves both buffers empty *)
(* and the stream at the position asked for.  (Under Spec.)                *)
C14_SeekAligns ==
    [][(Calls("seek") /\ verify_opened(Self))
       => /\ last'.exc = "none"
          /\ file' = flush(Self, FALSE).s.file
          /\ pos' = last'.arg[1]
          /\ Empty(input_buffer')
          /\ Empty(output_buffer')]_vars

(* seek refused with bits pending after put_char at a non-zero occupancy. *)
C14_SeekRefused ==
    /\ last.op = "seek"
    /\ last.exc = "ValueError"
    /\ stream = "open"
    /\ output_buffer[0] > 0

(* The same where the buffered value fits its count. *)
SeekAlignsCleanBuffer ==
    [][(Calls("seek") /\ verify_opened(Self)
        /\ output_buffer[1] < Pow2(output_buffer[0]))
       => /\ last'.exc = "none"
          /\ file' = flush(Self, FALSE).s.file
          /\ pos' = last'.arg[1]
          /\ Empty(input_buffer')
          /\ Empty(output_buffer')]_vars

(* What the mode a stream was opened with lets the caller do. *)
Opened == stream = "open"
Readable == In("r", mode) \/ In("+", mode)
Writable == In("w", mode) \/ In("a", mode) \/ In("+", mode)

(* A step that leaves the object and its file as they were. *)
NoEffect ==
    /\ stream' = stream
    /\ mode' = mode
    /\ input_buffer' = input_buffer
    /\ output_buffer' = output_buffer
    /\ file' = file
    /\ pos' = pos

(* C15: with the stream at the end of its file, get_char, and get_bit with *)
(* an empty input buffer, raise EOFError and nothing else, and leave the   *)
(* position and both buffers as they were.  (Under Spec.)                  *)
C15_EndOfStream ==
    [][(/\ Opened /\ Readable /\ pos = Len(file)
        /\ \/ Calls("get_char")
           \/ Calls("get_bit") /\ input_buffer[0] = 0)
       => /\ last'.exc = "EOFError"
          /\ NoEffect]_vars

(* get_char at the end of the file with unread bits in the input buffer. *)
C15_Witness ==
    /\ last.op = "get_char"
    /\ last.exc = "EOFError"
    /\ pos = Len(file)
    /\ input_buffer[0] = 7
    /\ input_buffer[1] = 178

(* C16: close, flush, byte_align, seek and every read and write on a       *)
(* stream that is not open raise ValueError, and so does open on a stream  *)
(* that is open; none of them has an effect.  (Under Spec.)                *)
C16_StateError ==
    [][(pc' = pc + 1 /\ (Opened <=> last'.op = "open"))
       => /\ last'.exc = "ValueError"
          /\ NoEffect]_vars

(* open refused on an open stream that holds pending bits. *)
C16_Witness ==
    /\ last.op = "open"
    /\ last.exc = "ValueError"
    /\ stream = "open"
    /\ mode = <<"w", "b">>
    /\ output_buffer[0] > 0

(* C17: on an open stream the reads raise IOError when the mode does not   *)
(* allow reading, the writes and flush raise IOError when it does not      *)
(* allow writing, with no byte read or written and both buffers as they    *)
(* were; on a stream that is not open they raise ValueError.  (Under Spec.)*)
C17_AccessError ==
    [][(/\ pc' = pc + 1
        /\ \/ last'.op \in {"get_char", "get_bit", "get_bits"} /\ ~(Opened /\ Readable)
           \/ last'.op \in {"put_char", "put_bit", "put_bits", "flush"}
              /\ ~(Opened /\ Writable))
       => /\ last'.exc = IF Opened THEN "IOError" ELSE "ValueError"
          /\ NoEffect]_vars

(* get_bits refused on a write-only stream that holds pending bits. *)
C17_Witness ==
    /\ last.op = "get_bits"
    /\ last.exc = "IOError"
    /\ mode = <<"w", "b">>
    /\ output_buffer[0] > 0

(* C18: open with 't' or 'U' in the mode raises ValueError and leaves the  *)
(* stream unopened with empty buffers; an open that succeeds binds a       *)
(* binary-mode handle and leaves both buffers empty.  (Under Spec.)        *)
C18_BinaryOnly ==
    [][Calls("open")
       => /\ (~Opened /\ (In("t", last'.arg) \/ In("U", last'.arg)))
             => /\ last'.exc = "ValueError"
                /\ stream' # "open"
                /\ Empty(input_buffer') /\ Empty(output_buffer')
          /\ last'.exc = "none"
             => /\ stream' = "open"
                /\ In("b", mode')
                /\ ~In("t", mode') /\ ~In("U", mode')
                /\ Empty(input_buffer') /\ Empty(output_buffer')]_vars

(* A text mode refused after the stream was used and closed. *)
C18_Witness ==
    /\ last.op = "open"
    /\ last.arg = <<"r", "t">>
    /\ last.exc = "ValueError"
    /\ stream = "None"
    /\ pc >= 3

(* C19: put_bits with a count that is not positive raises an error, writes *)
(* nothing and leaves the output buffer as it was.  (Under SpecArgs.)      *)
C19_CountValidated ==
    [][(pc = "write" /\ wlog' # wlog /\ last'.op = "put_bits" /\ last'.arg.n <= 0)
       => /\ last'.exc # "none"
          /\ file' = file
          /\ output_buffer' = output_buffer]_vars

(* put_bits(5, 0) returns 0 and raises nothing. *)
C19_ZeroCountAccepted ==
    /\ last.op = "put_bits"
    /\ last.arg.n = 0
    /\ last.exc = "none"
    /\ last.ret = <<0>>

(* What put_bits does with a count that is not positive: 0 is returned for *)
(* 0, IndexError raised for -7..-1 and ValueError below; nothing is        *)
(* written.                                                                *)
CountOutcomes ==
    [][(pc = "write" /\ wlog' # wlog /\ last'.op = "put_bits" /\ last'.arg.n <= 0)
       => /\ last'.exc = IF last'.arg.n = 0 THEN "none"
                         ELSE IF last'.arg.n >= -7 THEN "IndexError"
                         ELSE "ValueError"
          /\ file' = file
          /\ output_buffer' = output_buffer]_vars

(* C20: when the object is deleted with its stream open, the handle is     *)
(* released and the bits pending in the output buffer are written to the   *)
(* file, zero-filled, before that.  (Under SpecDel.)                       *)
C20_DelFlushes ==
    [][(pc = "write" /\ pc' = "deleted")
       => /\ stream' # "open"
          /\ output_buffer[0] > 0
             => file' = Append(file, BitsVal(PendingBits(output_buffer)
                                             \o Repeat(0, 8 - output_buffer[0])))
          /\ output_buffer[0] = 0 => file' = file]_vars

(* open for write, put_bit(1), del: the file stays empty. *)
C20_BitsLost ==
    /\ pc = "deleted"
    /\ wlog = <<BitOp(1)>>
    /\ stream = "closed"
    /\ file = <<>>

(* What __del__ does: the handle is closed and the file left as it was. *)
DelOnlyCloses ==
    [][(pc = "write" /\ pc' = "deleted")
       => /\ stream' = "closed"
          /\ file' = file]_vars

(* C21: in every state the caller can see, both buffers hold a count in    *)
(* 0..7 (never 8: the output buffer is written and reset at its eighth     *)
(* bit, the input buffer holds at most 7 unread bits) and a value in       *)
(* 0..255.  (Under Spec.)                                                  *)
C21_BuffersInRange ==
    /\ input_buffer[0] \in 0..7
    /\ output_buffer[0] \in 0..7
    /\ input_buffer[1] \in 0..255
    /\ output_buffer[1] \in 0..255

(* The eighth bit: put_bits(0x111, 12), put_bits(5, 3), put_bit(1) on a    *)
(* stream opened with 'w' leave two bytes in the file and an empty buffer. *)
C21_Witness ==
    /\ last.op = "put_bit"
    /\ last.exc = "none"
    /\ pc = 4
    /\ mode = <<"w", "b">>
    /\ Len(file) = 2
    /\ Empty(output_buffer)

(* The state of an object that is not bound to a file. *)
Baseline ==
    /\ stream = "None"
    /\ mode = <<>>
    /\ Empty(input_buffer)
    /\ Empty(output_buffer)

(* C22: the output buffer holds bits only on an open writable stream; a    *)
(* stream that is not open has no handle, an empty mode and empty buffers, *)
(* and an open with a binary mode succeeds from there.  (Under Spec.)      *)
C22_Baseline ==
    [][/\ output_buffer'[0] > 0 => stream' = "open" /\ Writable'
       /\ ~Opened' => Baseline'
       /\ ~Opened => Baseline
       /\ (Calls("open") /\ ~Opened /\ ~In("t", last'.arg) /\ ~In("U", last'.arg))
          => last'.exc = "none" /\ Opened']_vars

(* open 'w', put_bit(1), close, then open 'r' on the byte 0x80 it left. *)
C22_Witness ==
    /\ last.op = "open"
    /\ last.exc = "none"
    /\ stream = "open"
    /\ mode = <<"r", "b">>
    /\ file = <<128>>
    /\ pc = 4
    /\ Empty(input_buffer)
    /\ Empty(output_buffer)

(* C23: the reads leave the output buffer as it was; the writes and flush  *)
(* leave the input buffer as it was.  (Under Spec.)                        *)
C23_BuffersIndependent ==
    [][/\ (pc' = pc + 1 /\ last'.op \in {"get_char", "get_bit", "get_bits"})
          => output_buffer' = output_buffer
       /\ (pc' = pc + 1 /\ last'.op \in {"put_char", "put_bit", "put_bits", "flush"})
          => input_buffer' = input_buffer]_vars

(* A stream opened with 'r+': put_char with unread bits in the input       *)
(* buffer and pending bits in the output buffer.                           *)
C23_Witness ==
    /\ last.op = "put_char"
    /\ last.exc = "none"
    /\ mode = <<"r", "+", "b">>
    /\ input_buffer[0] > 0
    /\ output_buffer[0] > 0

(* C24: get_char with k unread bits in the input buffer (0 <= k <= 7)      *)
(* reads one byte from the file and returns the k unread bits followed by  *)
(* the high 8-k bits of that byte; afterwards the count is still k and the *)
(* unread bits are the low k bits of the byte read.  (Under Spec.)         *)
C24_GetCharSplices ==
    [][(Calls("get_char") /\ last'.exc = "none")
       => LET k == input_buffer[0]
              new == ByteBits(file[pos + 1])
          IN  /\ pos' = pos + 1
              /\ file' = file
              /\ last'.ret = <<BitsVal(PendingBits(input_buffer) \o SubSeq(new, 1, 8 - k))>>
              /\ input_buffer'[0] = k
              /\ PendingBits(input_buffer') = SubSeq(new, 9 - k, 8)]_vars

(* The file B2 41: get_bit returns 1, then get_char returns 0x64, the low  *)
(* seven bits of B2 followed by the high bit of 41.                        *)
C24_Witness ==
    /\ last.op = "get_char"
    /\ last.ret = <<100>>
    /\ file = <<178, 65>>
    /\ pos = 2
    /\ input_buffer[0] = 7
    /\ input_buffer[1] = 65

(* The byte a put_char call of the write log passes. *)
CharOf(op) == IF op.type = "str" THEN op.v[1] ELSE And255(op.v)

(* A put_char step of a writer that returns, at a non-zero occupancy. *)
PutCharOnBits ==
    /\ pc = "write"
    /\ wlog' # wlog
    /\ last'.op = "put_char"
    /\ last'.exc = "none"
    /\ output_buffer[0] > 0

(* C25 as claimed: put_char(b) at occupancy k > 0 writes one byte made of  *)
(* the held bits and the high k bits of b, and the low 8-k bits of b       *)
(* become the pending bits.  (Under SpecRT.)                               *)
C25_HighCountBitsEmitted ==
    [][PutCharOnBits
       => LET k == output_buffer[0]
              b == ByteBits(CharOf(last'.arg))
          IN  /\ file' = Append(file, BitsVal(PendingBits(output_buffer) \o SubSeq(b, 1, k)))
              /\ PendingBits(output_buffer') = SubSeq(b, k + 1, 8)]_vars

(* C25, amended: put_char(b) at occupancy k > 0 writes one byte, the k     *)
(* held bits followed by the high 8-k bits of b; the low k bits of b       *)
(* become the pending bits and the occupancy stays k; at occupancy 0 the   *)
(* byte b is written and the buffer stays empty.  (Under SpecRT.)          *)
C25_HighRestBitsEmitted ==
    [][(pc = "write" /\ wlog' # wlog /\ last'.op = "put_char" /\ last'.exc = "none")
       => LET k == output_buffer[0]
              b == ByteBits(CharOf(last'.arg))
          IN  /\ file' = Append(file, BitsVal(PendingBits(output_buffer) \o SubSeq(b, 1, 8 - k)))
              /\ output_buffer'[0] = k
              /\ PendingBits(output_buffer') = SubSeq(b, 9 - k, 8)]_vars

(* put_char(0xB2) after put_bits(5, 3): B6 is written, the bits 101 and    *)
(* 10110, and the three bits 010 stay pending.                             *)
C25_Witness ==
    /\ pc = "write"
    /\ wlog = <<BitsOp(<<5>>, 3), CharOp(PyInt(178))>>
    /\ last.op = "put_char"
    /\ file = <<182>>
    /\ output_buffer[0] = 3
    /\ PendingBits(output_buffer) = <<0, 1, 0>>

(* The last step of a caller: a call that the failing file made raise. *)
IOFailed(names) ==
    /\ pc < MaxCalls
    /\ pc' = MaxCalls
    /\ last'.op \in names
    /\ last'.exc = "IOError"
    /\ Opened

(* C26: when the write or the read of the underlying stream fails in       *)
(* put_bit, put_char, get_bit or get_char, the error reaches the caller    *)
(* and both buffers are as they were before the call; the output buffer is *)
(* not left at a count of 8.  (Under SpecFault.)                           *)
C26_Atomic ==
    [][(\/ IOFailed({"put_bit", "put_char"}) /\ Writable
        \/ IOFailed({"get_bit", "get_char"}) /\ Readable)
       => /\ input_buffer' = input_buffer
          /\ output_buffer' = output_buffer
          /\ output_buffer'[0] # 8]_vars

(* The write of the eighth bit's byte failed: the count is left at 8. *)
C26_CountOfEight ==
    /\ last.op = "put_bit"
    /\ last.exc = "IOError"
    /\ stream = "open"
    /\ output_buffer[0] = 8

(* The same for put_char, get_bit and get_char, which touch their buffer   *)
(* after the write or the read.                                            *)
AtomicButPutBit ==
    [][(\/ IOFailed({"put_char"}) /\ Writable
        \/ IOFailed({"get_bit", "get_char"}) /\ Readable)
       => /\ input_buffer' = input_buffer
          /\ output_buffer' = output_buffer]_vars

(* A step of the free caller in which one of the named methods returns. *)
Returns(names) == pc' = pc + 1 /\ last'.op \in names /\ last'.exc = "none"

(* The bits a write step was given, in the order of the stream. *)
Supplied ==
    IF last'.op = "put_bit" THEN <<IF last'.arg[1] # 0 THEN 1 ELSE 0>>
    ELSE IF last'.op = "put_char" THEN ByteBits(CharOf(last'.arg))
    ELSE PutBitsStream(last'.arg.v, last'.arg.n)

(* The bits a read step gave the caller, in the order of the stream. *)
Delivered ==
    IF last'.op = "get_bit" THEN last'.ret
    ELSE IF last'.op = "get_char" THEN ByteBits(last'.ret[1])
    ELSE PutBitsStream(last'.ret, last'.arg[1])

(* The bytes a read step pulled from the file, a write step put in it. *)
Pulled == SubSeq(file, pos + 1, pos')
Emitted ==
    IF In("a", mode) THEN SubSeq(file', Len(file) + 1, Len(file'))
    ELSE SubSeq(file', pos + 1, pos')

(* C27: bits are conserved by every call that returns: a read delivers the *)
(* unread bits and then the bits of the bytes it pulls, in order, and      *)
(* keeps the rest unread (8 x bytes pulled - occupancy grows by the bits   *)
(* delivered); a write emits the pending bits and then the bits supplied,  *)
(* in order, and keeps the rest pending (8 x bytes emitted + occupancy     *)
(* grows by the bits supplied); the counts start from empty buffers at     *)
(* open, byte_align and seek, and at flush for the output.  (Under Spec.)  *)
C27_BitsConserved ==
    [][/\ Returns({"get_bit", "get_char", "get_bits"})
          => /\ PendingBits(input_buffer) \o FileBits(Pulled)
                = Delivered \o PendingBits(input_buffer')
             /\ 8 * Len(Pulled) - input_buffer'[0] + input_buffer[0] = Len(Delivered)
             /\ file' = file
       /\ Returns({"put_bit", "put_char", "put_bits"})
          => /\ PendingBits(output_buffer) \o Supplied
                = FileBits(Emitted) \o PendingBits(output_buffer')
             /\ 8 * Len(Emitted) + output_buffer'[0] - output_buffer[0] = Len(Supplied)
       /\ Returns({"open", "byte_align", "seek"})
          => input_buffer'[0] = 0 /\ output_buffer'[0] = 0
       /\ Returns({"flush"}) => output_buffer'[0] = 0]_vars

(* A stream opened with 'r+' on a two-byte file: get_bits(12) returns with *)
(* four bits unread while three bits written by put_bits(5, 3) are pending.*)
C27_Witness ==
    /\ last.op = "get_bits"
    /\ last.arg = <<12>>
    /\ last.exc = "none"
    /\ input_buffer[0] = 4
    /\ output_buffer[0] = 3
    /\ pos = 2

====
